---- MODULE Spec2Model ----
(***************************************************************************)
(* generate_plan.py: main() asks an external generator for a JSON plan,    *)
(* parses it (with one repair round-trip), renders two Markdown documents  *)
(* and writes them as plan.md and plan_with_evidence.md.                   *)
(*                                                                         *)
(* Python strings are sequences of one-character strings.  A JSON value is *)
(* a record tagged by its Python type after json.loads:                    *)
(*   null, bool, int, str (v: characters), list (v: sequence of values),   *)
(*   dict (v: function from key to value).                                 *)
(***************************************************************************)
EXTENDS Integers, Sequences, FiniteSets, TLC

VARIABLES
    pc,                     \* the statement of main() that runs next
    calls,                  \* how many times run_claude has been invoked
    output, output2,        \* stdout of the first and of the repair invocation
    plan,                   \* the parsed JSON value
    plan_md,                \* the concise document
    plan_with_evidence_md,  \* the evidence document
    out_plan, out_plan_e,   \* the files plan.md and plan_with_evidence.md
    err                     \* the exception that ended the run, or "none"

vars == <<pc, calls, output, output2, plan, plan_md, plan_with_evidence_md, out_plan, out_plan_e, err>>

----------------------------------------------------------------------------
(* Bounds of the input space.                                              *)

\* longest items list of a hypothesis / methodology / experiments section
MaxItems == 3
\* longest evidence list of one objective / item / experiment
MaxEvidence == 3

----------------------------------------------------------------------------
(* JSON values as json.loads returns them.                                 *)

JNull == [t |-> "null"]
JBool(b) == [t |-> "bool", v |-> b]
JInt(n) == [t |-> "int", v |-> n]
JStr(s) == [t |-> "str", v |-> s]
JList(s) == [t |-> "list", v |-> s]
JDict(f) == [t |-> "dict", v |-> f]
EmptyDict == JDict([k \in {} |-> JNull])

IsNone(x) == x.t = "null"
IsStr(x) == x.t = "str"
IsList(x) == x.t = "list"
IsDict(x) == x.t = "dict"
\* isinstance(x, int): Python's bool is a subclass of int
IsInt(x) == x.t \in {"int", "bool"}

\* d.get(k, default) on a dict
Get(d, k, default) == IF k \in DOMAIN d.v THEN d.v[k] ELSE default

\* Python truth value of a JSON value (the `q or ""` of normalize_quote)
Truthy(x) ==
    CASE x.t = "null" -> FALSE
      [] x.t = "bool" -> x.v
      [] x.t = "int" -> x.v # 0
      [] x.t = "str" -> Len(x.v) > 0
      [] x.t = "list" -> Len(x.v) > 0
      [] x.t = "dict" -> DOMAIN x.v # {}

----------------------------------------------------------------------------
(* Python string primitives.                                               *)

\* the ASCII characters str.strip(), str.split() and the regex \s treat as whitespace
Whitespace == {" ", "\n", "\t"}

Digits == <<"0","1","2","3","4","5","6","7","8","9">>

IsDigit(c) == \E d \in 1..10 : Digits[d] = c

UpperCase == <<"A","B","C","D","E","F","G","H","I","J","K","L","M","N","O","P","Q","R","S","T","U","V","W","X","Y","Z">>
LowerCase == <<"a","b","c","d","e","f","g","h","i","j","k","l","m","n","o","p","q","r","s","t","u","v","w","x","y","z">>

\* str.lower()
lower(s) ==
    [i \in 1..Len(s) |->
        IF \E k \in 1..26 : UpperCase[k] = s[i]
        THEN LowerCase[CHOOSE k \in 1..26 : UpperCase[k] = s[i]]
        ELSE s[i]]

\* str.strip()
strip(s) ==
    LET keep == {i \in 1..Len(s) : s[i] \notin Whitespace}
    IN IF keep = {} THEN <<>>
       ELSE SubSeq(s, CHOOSE i \in keep : \A j \in keep : i <= j,
                      CHOOSE i \in keep : \A j \in keep : i >= j)

\* the indices 1..Len(s) in increasing order
Indices(s) == [i \in 1..Len(s) |-> i]

\* str.split() with no argument: the maximal runs of non-whitespace
split(s) ==
    LET starts == SelectSeq(Indices(s), LAMBDA i : s[i] \notin Whitespace
                                             /\ (i = 1 \/ s[i - 1] \in Whitespace))
        word_end(i) == CHOOSE j \in i..Len(s) :
                          /\ \A k \in i..j : s[k] \notin Whitespace
                          /\ (j = Len(s) \/ s[j + 1] \in Whitespace)
    IN [w \in 1..Len(starts) |-> SubSeq(s, starts[w], word_end(starts[w]))]

\* sep.join(parts)
RECURSIVE join(_, _)
join(sep, parts) ==
    IF parts = <<>> THEN <<>>
    ELSE IF Len(parts) = 1 THEN parts[1]
    ELSE parts[1] \o sep \o join(sep, Tail(parts))

\* re.sub(r"\s+", " ", q): every maximal run of whitespace becomes one space
collapse_whitespace(q) ==
    LET kept == SelectSeq(Indices(q), LAMBDA i : q[i] \notin Whitespace
                                           \/ i = 1 \/ q[i - 1] \notin Whitespace)
    IN [k \in 1..Len(kept) |-> IF q[kept[k]] \in Whitespace THEN " " ELSE q[kept[k]]]

\* str(n) of a natural number
RECURSIVE nat_str(_)
nat_str(n) == IF n < 10 THEN <<Digits[n + 1]>> ELSE nat_str(n \div 10) \o <<Digits[(n % 10) + 1]>>

\* str(n) of an int
int_str(n) == IF n < 0 THEN <<"-">> \o nat_str(0 - n) ELSE nat_str(n)

\* str(x) of a JSON value that is no str: None, a bool, an int, or a list of
\* these; the mapping cases are the empty dict only
RECURSIVE py_str(_)
py_str(x) ==
    CASE x.t = "null" -> <<"N","o","n","e">>
      [] x.t = "bool" -> IF x.v THEN <<"T","r","u","e">> ELSE <<"F","a","l","s","e">>
      [] x.t = "int" -> int_str(x.v)
      [] x.t = "list" -> <<"[">> \o join(<<",", " ">>, [i \in 1..Len(x.v) |-> py_str(x.v[i])]) \o <<"]">>
      [] x.t = "dict" /\ DOMAIN x.v = {} -> <<"{", "}">>

\* s contains sub as a substring (Python's `sub in s`)
Contains(s, sub) ==
    \E i \in 1..(Len(s) - Len(sub) + 1) : SubSeq(s, i, i + Len(sub) - 1) = sub

----------------------------------------------------------------------------
(* normalize_unknown, normalize_quote, format_evidence_list, extract_page  *)

s_Unknown == <<"U","n","k","n","o","w","n">>

UnknownSynonyms ==
    { <<"u","n","k","n","o","w","n">>,
      <<"n","/","a">>,
      <<"n","a">>,
      <<"n","o","t"," ","s","p","e","c","i","f","i","e","d">>,
      <<"n","o","t"," ","s","t","a","t","e","d">> }

normalize_unknown(x) ==
    IF IsNone(x) THEN s_Unknown
    ELSE IF IsStr(x)
         THEN LET s == strip(x.v)
              IN IF s = <<>> THEN s_Unknown
                 ELSE IF lower(s) \in UnknownSynonyms THEN s_Unknown
                 ELSE s
         ELSE py_str(x)

\* quotes longer than this many words are cut
MaxQuoteWords == 40

\* normalize_quote(q) raises AttributeError: `(q or "")` is q itself when q is
\* truthy, and only a str has .strip()
normalize_quote_raises(q) == Truthy(q) /\ ~IsStr(q)

\* the value normalize_quote(q) returns when it does not raise
normalize_quote(q) ==
    LET q0 == IF Truthy(q) THEN q.v ELSE <<>>
        q1 == collapse_whitespace(strip(q0))
        words == split(q1)
    IN IF Len(words) > MaxQuoteWords
       THEN join(<<" ">>, SubSeq(words, 1, MaxQuoteWords)) \o <<".",".",".">>
       ELSE q1

\* format_evidence_list(ev) raises: some mapping entry has a quote on which
\* normalize_quote raises
format_evidence_list_raises(ev) ==
    /\ IsList(ev)
    /\ \E i \in 1..Len(ev.v) :
          /\ IsDict(ev.v[i])
          /\ normalize_quote_raises(Get(ev.v[i], "quote", JStr(<<>>)))

\* one formatted line, or <<>> (no line) for a skipped entry
evidence_line(item) ==
    IF ~IsDict(item) THEN <<>>
    ELSE LET page == Get(item, "page", JNull)
             quote == normalize_quote(Get(item, "quote", JStr(<<>>)))
         IN IF quote = <<>> THEN <<>>
            ELSE IF IsInt(page)
                 THEN <<<<"(","p",".">> \o py_str(page) \o <<")"," ","\"">> \o quote \o <<"\"">>>>
                 ELSE <<<<"(","p",".","?",")"," ","\"">> \o quote \o <<"\"">>>>

RECURSIVE format_evidence_seq(_)
format_evidence_seq(entries) ==
    IF entries = <<>> THEN <<>>
    ELSE evidence_line(entries[1]) \o format_evidence_seq(Tail(entries))

\* the list of lines format_evidence_list(ev) returns when it does not raise
format_evidence_list(ev) ==
    IF ~IsList(ev) THEN <<>> ELSE format_evidence_seq(ev.v)

\* ev_lines[:2]
first_two(lines) == SubSeq(lines, 1, IF Len(lines) < 2 THEN Len(lines) ELSE 2)

\* re.search(r"\(p\.(\d+)\)", evidence_line): digits of the leftmost match, or "?"
extract_page(line) ==
    LET digits_end(i) ==   \* last index of the digit run starting at i + 3
            CHOOSE j \in (i + 2)..Len(line) :
                /\ \A k \in (i + 3)..j : IsDigit(line[k])
                /\ (j = Len(line) \/ ~IsDigit(line[j + 1]))
        matches == {i \in 1..Len(line) :
                      /\ i + 4 <= Len(line)
                      /\ SubSeq(line, i, i + 2) = <<"(","p",".">>
                      /\ IsDigit(line[i + 3])
                      /\ digits_end(i) < Len(line)
                      /\ line[digits_end(i) + 1] = ")"}
    IN IF matches = {} THEN <<"?">>
       ELSE LET i == CHOOSE i \in matches : \A j \in matches : i <= j
            IN SubSeq(line, i + 3, digits_end(i))

----------------------------------------------------------------------------
(* Section extractors.  plan.get(...) needs plan to be a dict; the         *)
(* operators below give the value returned for a dict plan, and the        *)
(* *_raises predicates say when the Python call raises instead.            *)

EmptyList == JList(<<>>)

\* "".join(parts)
RECURSIVE concat(_)
concat(parts) == IF parts = <<>> THEN <<>> ELSE parts[1] \o concat(Tail(parts))

extract_objective_text(p) ==
    LET obj == Get(p, "objective", EmptyDict)
    IN IF IsDict(obj) THEN normalize_unknown(Get(obj, "text", JNull)) ELSE s_Unknown

\* the pair (text, ev_lines)
extract_objective_with_evidence(p) ==
    LET obj == Get(p, "objective", EmptyDict)
    IN IF IsDict(obj)
       THEN <<normalize_unknown(Get(obj, "text", JNull)),
              format_evidence_list(Get(obj, "evidence", EmptyList))>>
       ELSE <<s_Unknown, <<>>>>

extract_objective_with_evidence_raises(p) ==
    LET obj == Get(p, "objective", EmptyDict)
    IN IsDict(obj) /\ format_evidence_list_raises(Get(obj, "evidence", EmptyList))

\* raw_items of a section when sec is a dict holding a list, else no items
raw_items_of(p, key) ==
    LET sec == Get(p, key, EmptyDict)
    IN IF IsDict(sec) /\ IsList(Get(sec, "items", EmptyList))
       THEN Get(sec, "items", EmptyList).v
       ELSE <<>>

\* the texts appended to `items` by the loop of extract_list_text
RECURSIVE list_texts(_)
list_texts(raw_items) ==
    IF raw_items = <<>> THEN <<>>
    ELSE LET it == raw_items[1]
             t == IF IsDict(it) THEN normalize_unknown(Get(it, "text", JNull)) ELSE s_Unknown
         IN (IF IsDict(it) /\ t # s_Unknown THEN <<t>> ELSE <<>>) \o list_texts(Tail(raw_items))

\* (bug variant) numbers each surviving text by its position in raw_items
extract_list_text_position_numbered(p, key) ==
    LET raw_items == raw_items_of(p, key)
        out == concat([i \in 1..Len(raw_items) |->
                         LET t == list_texts(<<raw_items[i]>>)
                         IN IF t = <<>> THEN <<>>
                            ELSE <<nat_str(i) \o <<"."," ">> \o t[1] \o <<"\n">>>>])
    IN IF out = <<>> THEN s_Unknown ELSE strip(concat(out))

extract_list_text(p, key) ==
    LET items == list_texts(raw_items_of(p, key))
    IN IF items = <<>> THEN s_Unknown
       ELSE strip(concat([i \in 1..Len(items) |->
                            nat_str(i) \o <<"."," ">> \o items[i] \o <<"\n">>]))

\* (bug variant) ln.rsplit(": ", 1)[-1]: cuts at the last ": "
after_last_colon_space(ln) ==
    LET at == {i \in 1..(Len(ln) - 1) : ln[i] = ":" /\ ln[i + 1] = " "}
    IN IF at = {} THEN ln
       ELSE LET i == CHOOSE i \in at : \A j \in at : i >= j
            IN SubSeq(ln, i + 2, Len(ln))

\* ln.split(": ", 1)[-1] if ": " in ln else ln
after_first_colon_space(ln) ==
    LET at == {i \in 1..(Len(ln) - 1) : ln[i] = ":" /\ ln[i + 1] = " "}
    IN IF at = {} THEN ln
       ELSE LET i == CHOOSE i \in at : \A j \in at : i <= j
            IN SubSeq(ln, i + 2, Len(ln))

\* (bug variant) skips the evidence of an item whose text is "Unknown"
item_evidence_lines_of_listed_items(it, idx, key) ==
    IF ~IsDict(it) \/ list_texts(<<it>>) = <<>> THEN <<>>
    ELSE LET ev_lines == first_two(format_evidence_list(Get(it, "evidence", EmptyList)))
             label == IF key = "hypothesis" THEN nat_str(idx) ELSE <<"M">> \o nat_str(idx)
         IN [k \in 1..Len(ev_lines) |->
                <<"H">> \o label \o <<" ","(","p",".">> \o extract_page(ev_lines[k])
                        \o <<")",":"," ">> \o ev_lines[k]]

\* the prefixed lines appended for the item at 1-based position idx
item_evidence_lines(it, idx, key) ==
    IF ~IsDict(it) THEN <<>>
    ELSE LET ev_lines == first_two(format_evidence_list(Get(it, "evidence", EmptyList)))
             label == IF key = "hypothesis" THEN nat_str(idx) ELSE <<"M">> \o nat_str(idx)
         IN [k \in 1..Len(ev_lines) |->
                <<"H">> \o label \o <<" ","(","p",".">> \o extract_page(ev_lines[k])
                        \o <<")",":"," ">> \o ev_lines[k]]

extract_list_evidence_lines(p, key) ==
    LET raw_items == raw_items_of(p, key)
        lines == concat([idx \in 1..Len(raw_items) |->
                            item_evidence_lines(raw_items[idx], idx, key)])
    IN [k \in 1..Len(lines) |-> after_first_colon_space(lines[k])]

extract_list_evidence_lines_raises(p, key) ==
    LET raw_items == raw_items_of(p, key)
    IN \E idx \in 1..Len(raw_items) :
          /\ IsDict(raw_items[idx])
          /\ format_evidence_list_raises(Get(raw_items[idx], "evidence", EmptyList))

\* (bug variant) renders a block for an experiment without a name too
experiment_block_unnamed_kept(it, include_evidence) ==
    IF ~IsDict(it) THEN <<>>
    ELSE << <<"#","#","#"," ">> \o normalize_unknown(Get(it, "name", JNull)) \o <<"\n">>
            \o <<"-"," ","W","h","a","t"," ","v","a","r","i","e","d",":"," ">>
            \o normalize_unknown(Get(it, "what_varied", JNull)) \o <<"\n">>
            \o <<"-"," ","M","e","t","r","i","c",":"," ">>
            \o normalize_unknown(Get(it, "metric", JNull)) \o <<"\n">>
            \o <<"-"," ","M","a","i","n"," ","r","e","s","u","l","t",":"," ">>
            \o normalize_unknown(Get(it, "main_result", JNull)) \o <<"\n">> >>

\* the block of one experiment, or <<>> (no block) for a skipped entry
experiment_block(it, include_evidence) ==
    IF ~IsDict(it) THEN <<>>
    ELSE LET name == normalize_unknown(Get(it, "name", JNull))
             what_varied == normalize_unknown(Get(it, "what_varied", JNull))
             metric == normalize_unknown(Get(it, "metric", JNull))
             main_result == normalize_unknown(Get(it, "main_result", JNull))
             ev_lines == format_evidence_list(Get(it, "evidence", EmptyList))
             shown == first_two(ev_lines)
         IN IF name = s_Unknown THEN <<>>
            ELSE << <<"#","#","#"," ">> \o name \o <<"\n">>
                    \o <<"-"," ","W","h","a","t"," ","v","a","r","i","e","d",":"," ">> \o what_varied \o <<"\n">>
                    \o <<"-"," ","M","e","t","r","i","c",":"," ">> \o metric \o <<"\n">>
                    \o <<"-"," ","M","a","i","n"," ","r","e","s","u","l","t",":"," ">> \o main_result \o <<"\n">>
                    \o (IF include_evidence /\ ev_lines # <<>>
                        THEN <<"-"," ","E","v","i","d","e","n","c","e",":","\n">>
                             \o concat([k \in 1..Len(shown) |->
                                          <<" "," ","-"," ">> \o shown[k] \o <<"\n">>])
                        ELSE <<>>) >>

extract_experiments_text(p, include_evidence) ==
    LET raw_items == raw_items_of(p, "experiments")
        exps == concat([i \in 1..Len(raw_items) |->
                           experiment_block(raw_items[i], include_evidence)])
    IN IF exps = <<>> THEN s_Unknown ELSE strip(join(<<"\n">>, exps))

\* format_evidence_list runs for every named experiment, also when
\* include_evidence is False
extract_experiments_text_raises(p) ==
    LET raw_items == raw_items_of(p, "experiments")
    IN \E i \in 1..Len(raw_items) :
          /\ IsDict(raw_items[i])
          /\ normalize_unknown(Get(raw_items[i], "name", JNull)) # s_Unknown
          /\ format_evidence_list_raises(Get(raw_items[i], "evidence", EmptyList))

----------------------------------------------------------------------------
(* The two renderers.                                                      *)

render_plan_md_concise_raises(p) ==
    \/ ~IsDict(p)
    \/ extract_experiments_text_raises(p)

\* (bug variant) the concise document keeps the experiments' evidence block
render_plan_md_concise_with_experiment_evidence(p) ==
    <<"#"," ","P","l","a","n","\n">>
    \o <<"#","#"," ","O","b","j","e","c","t","i","v","e","\n">>
    \o extract_objective_text(p) \o <<"\n","\n">>
    \o <<"#","#"," ","H","y","p","o","t","h","e","s","i","s","\n">>
    \o extract_list_text(p, "hypothesis") \o <<"\n","\n">>
    \o <<"#","#"," ","M","e","t","h","o","d","o","l","o","g","y","\n">>
    \o extract_list_text(p, "methodology") \o <<"\n","\n">>
    \o <<"#","#"," ","E","x","p","e","r","i","m","e","n","t","s","\n">>
    \o extract_experiments_text(p, TRUE) \o <<"\n">>

render_plan_md_concise(p) ==
    LET obj == extract_objective_text(p)
        hyp == extract_list_text(p, "hypothesis")
        meth == extract_list_text(p, "methodology")
        exps == extract_experiments_text(p, FALSE)
    IN <<"#"," ","P","l","a","n","\n">>
       \o <<"#","#"," ","O","b","j","e","c","t","i","v","e","\n">>
       \o obj \o <<"\n","\n">>
       \o <<"#","#"," ","H","y","p","o","t","h","e","s","i","s","\n">>
       \o hyp \o <<"\n","\n">>
       \o <<"#","#"," ","M","e","t","h","o","d","o","l","o","g","y","\n">>
       \o meth \o <<"\n","\n">>
       \o <<"#","#"," ","E","x","p","e","r","i","m","e","n","t","s","\n">>
       \o exps \o <<"\n">>

\* "\n**Evidence**:\n" and one "- line\n" per evidence line, or nothing
evidence_sublist(ev_lines) ==
    IF ev_lines = <<>> THEN <<>>
    ELSE <<"\n","*","*","E","v","i","d","e","n","c","e","*","*",":","\n">>
         \o concat([k \in 1..Len(ev_lines) |-> <<"-"," ">> \o ev_lines[k] \o <<"\n">>])

objective_section(p) ==
    LET oe == extract_objective_with_evidence(p)
    IN <<"#","#"," ","O","b","j","e","c","t","i","v","e","\n">>
       \o oe[1] \o <<"\n">> \o evidence_sublist(oe[2]) \o <<"\n">>

hypothesis_section(p) ==
    <<"#","#"," ","H","y","p","o","t","h","e","s","i","s","\n">>
    \o extract_list_text(p, "hypothesis") \o <<"\n">>
    \o evidence_sublist(extract_list_evidence_lines(p, "hypothesis")) \o <<"\n">>

methodology_section(p) ==
    <<"#","#"," ","M","e","t","h","o","d","o","l","o","g","y","\n">>
    \o extract_list_text(p, "methodology") \o <<"\n">>
    \o evidence_sublist(extract_list_evidence_lines(p, "methodology")) \o <<"\n">>

unknowns_section(p) ==
    LET u0 == Get(p, "unknowns", EmptyList)
        unknowns == IF IsList(u0) THEN u0.v ELSE <<>>
    IN <<"\n","#","#"," ","U","n","k","n","o","w","n","s","\n">>
       \o (IF unknowns # <<>>
           THEN concat([k \in 1..Len(unknowns) |->
                           <<"-"," ">> \o normalize_unknown(unknowns[k]) \o <<"\n">>])
           ELSE <<"-"," ","(","n","o","n","e",")","\n">>)

render_plan_md_with_evidence_raises(p) ==
    \/ ~IsDict(p)
    \/ extract_objective_with_evidence_raises(p)
    \/ extract_list_evidence_lines_raises(p, "hypothesis")
    \/ extract_list_evidence_lines_raises(p, "methodology")
    \/ extract_experiments_text_raises(p)

render_plan_md_with_evidence(p) ==
    <<"#"," ","P","l","a","n"," ","(","w","i","t","h"," ","e","v","i","d","e","n","c","e",")","\n">>
    \o objective_section(p)
    \o hypothesis_section(p)
    \o methodology_section(p)
    \o <<"#","#"," ","E","x","p","e","r","i","m","e","n","t","s","\n">>
    \o extract_experiments_text(p, TRUE) \o <<"\n">>
    \o unknowns_section(p)

----------------------------------------------------------------------------
(* Inputs: the JSON values the generator's answer is drawn from.           *)

\* a quote of 41 one-letter words, one more than MaxQuoteWords
LongQuote == [i \in 1..81 |-> IF i % 2 = 1 THEN "w" ELSE " "]

\* evidence entries, well formed and malformed
EvidencePool ==
    << JDict([page |-> JInt(3), quote |-> JStr(<<"a",":"," ","b">>)]),
       JDict([quote |-> JStr(<<"c">>)]),
       JDict([page |-> JStr(<<"4">>), quote |-> JStr(<<"x",":"," ","(","p",".","1","2",")">>)]),
       JDict([page |-> JBool(TRUE), quote |-> JStr(<<" ","d","\t","\n","e"," ">>)]),
       JDict([page |-> JInt(12), quote |-> JStr(<<" ","\n">>)]),
       JInt(7),
       JDict([page |-> JInt(-2), quote |-> JNull]),
       JDict([page |-> JInt(5), quote |-> JInt(9)]),
       JDict([page |-> JInt(40), quote |-> JStr(LongQuote)]),
       JDict([page |-> JInt(0), quote |-> JList(<<JInt(1)>>)]),
       JDict([page |-> JNull, quote |-> JInt(0)]) >>

\* the n entries that follow position k of the pool, cyclically
EvList(k, n) ==
    JList([i \in 1..n |-> EvidencePool[((k + i - 2) % Len(EvidencePool)) + 1]])

EvidenceValues ==
    {EvList(k, n) : k \in 1..Len(EvidencePool), n \in 0..MaxEvidence}
        \cup {JNull, JStr(<<"c">>), EmptyDict}

\* values of a text, name, what_varied, metric, main_result or unknowns entry
TextValues ==
    { JStr(<<"A">>), JStr(<<" ","B","\n">>), JStr(<<" ","N","/","a"," ">>),
      JStr(<<"N","o","t"," ","S","t","a","t","e","d">>), JStr(<<>>), JNull,
      JInt(3), JInt(-10), JBool(FALSE), JList(<<JInt(1), JNull>>), EmptyDict,
      JStr(<<"E","v","i","d","e","n","c","e">>),
      JStr(<<"U","n","k","n","o","w","n","s">>),
      JStr(<<"U","n","k","n","o","w","n">>) }

\* all sequences over S of length at most n
SeqsUpTo(S, n) == UNION {[1..m -> S] : m \in 0..n}

ObjectiveValues ==
    {JDict([text |-> t, evidence |-> EvList(1, MaxEvidence)]) : t \in TextValues}
        \cup {JDict([text |-> JStr(<<"A">>), evidence |-> e]) : e \in EvidenceValues}
        \cup {JDict([evidence |-> EvList(2, 1)]), EmptyDict, JNull, JStr(<<"A">>), EmptyList}

\* items of a hypothesis / methodology section
ListItems ==
    { JDict([text |-> JStr(<<"A">>), evidence |-> EvList(1, MaxEvidence)]),
      JDict([text |-> JStr(<<" ","n","/","a">>), evidence |-> EvList(2, MaxEvidence)]),
      JDict([text |-> JStr(<<"B",":"," ","b">>), evidence |-> EvList(4, 1)]),
      JDict([evidence |-> EvList(5, 2)]),
      JStr(<<"A">>) }

ListSectionValues ==
    {JDict([items |-> JList(s)]) : s \in SeqsUpTo(ListItems, MaxItems)}
        \cup {JDict([items |-> JList(<<JDict([text |-> t, evidence |-> e])>>)]) :
                 t \in {JStr(<<"A">>), JStr(<<"n","a">>)}, e \in EvidenceValues}
        \cup {JDict([items |-> JList(<<JDict([text |-> t])>>)]) : t \in TextValues}
        \cup {JDict([items |-> JStr(<<"A">>)]), JDict([items |-> JNull]), EmptyDict,
              JNull, JStr(<<"U","n","k","n","o","w","n">>), EmptyList}

\* items of the experiments section
ExperimentItems ==
    { JDict([name |-> JStr(<<"E","1">>), what_varied |-> JStr(<<"x">>),
             metric |-> JStr(<<"m">>), main_result |-> JStr(<<"r">>),
             evidence |-> EvList(1, MaxEvidence)]),
      JDict([name |-> JStr(<<"E","2">>), metric |-> JStr(<<" ","n","a"," ">>),
             evidence |-> EvList(4, 2)]),
      JDict([name |-> JStr(<<"N","/","A">>), what_varied |-> JStr(<<"x">>),
             evidence |-> EvList(7, 2)]),
      JDict([what_varied |-> JStr(<<"x">>), main_result |-> JStr(<<"r">>)]),
      JInt(1) }

ExperimentsValues ==
    {JDict([items |-> JList(s)]) : s \in SeqsUpTo(ExperimentItems, MaxItems)}
        \cup {JDict([items |-> JList(<<JDict([name |-> JStr(<<"E","1">>), evidence |-> e])>>)]) :
                 e \in EvidenceValues}
        \cup {JDict([items |-> JList(<<JDict([name |-> JStr(<<"E","1">>), what_varied |-> t,
                                               metric |-> JStr(<<"m">>), main_result |-> t])>>)]) :
                 t \in TextValues}
        \cup {JDict([items |-> JList(<<JDict([name |-> t, metric |-> JStr(<<"m">>)])>>)]) :
                 t \in TextValues}
        \cup {JDict([items |-> EmptyDict]), EmptyDict, JNull, JStr(<<"A">>), EmptyList}

UnknownsValues ==
    {JList(s) : s \in SeqsUpTo({JStr(<<"A">>), JStr(<<"n","/","a">>), JNull, JInt(3)}, 2)}
        \cup {JNull, JStr(<<"A">>), EmptyDict}

\* a plan that follows the requested schema
BasePlan ==
    JDict([objective |-> JDict([text |-> JStr(<<"O">>), evidence |-> EvList(1, 1)]),
           hypothesis |-> JDict([items |-> JList(<<JDict([text |-> JStr(<<"A">>),
                                                           evidence |-> EvList(2, 1)])>>)]),
           methodology |-> JDict([items |-> JList(<<JDict([text |-> JStr(<<"B">>),
                                                            evidence |-> EvList(1, 2)])>>)]),
           experiments |-> JDict([items |-> JList(<<JDict([name |-> JStr(<<"E","1">>),
                                                            metric |-> JStr(<<"m">>),
                                                            evidence |-> EvList(1, 1)])>>)]),
           unknowns |-> JList(<<JStr(<<"A">>)>>)])

\* d with key k set to x
With(d, k, x) == JDict([j \in DOMAIN d.v \cup {k} |-> IF j = k THEN x ELSE d.v[j]])

\* the parsed answers: a plan with one section varied, a plan holding one
\* section only, and roots that are no JSON object
Plans ==
    LET vary(base) ==
              {With(base, "objective", x) : x \in ObjectiveValues}
         \cup {With(base, "hypothesis", x) : x \in ListSectionValues}
         \cup {With(base, "methodology", x) : x \in ListSectionValues}
         \cup {With(base, "experiments", x) : x \in ExperimentsValues}
         \cup {With(base, "unknowns", x) : x \in UnknownsValues}
    IN vary(BasePlan) \cup vary(EmptyDict)
         \cup {EmptyDict, EmptyList, JNull, JInt(3), JStr(<<"A">>), JList(<<BasePlan>>)}

----------------------------------------------------------------------------
(* The generator's answer and parse_json_strict.  A response text is a     *)
(* sequence of parts: a code-fence line, a JSON document, or other text.   *)

Fence == [k |-> "fence"]
Junk == [k |-> "junk"]
Json(x) == [k |-> "json", value |-> x]

\* the text left after the two re.sub calls when t starts with a fence
strip_fences(t) ==
    IF t # <<>> /\ t[1] = Fence
    THEN LET t1 == Tail(t)
         IN IF t1 # <<>> /\ t1[Len(t1)] = Fence THEN SubSeq(t1, 1, Len(t1) - 1) ELSE t1
    ELSE t

\* json.loads raises unless the text is exactly one JSON document
parse_json_strict_raises(text) ==
    LET t == strip_fences(text)
    IN ~(Len(t) = 1 /\ t[1].k = "json")

parse_json_strict(text) == strip_fences(text)[1].value

\* plans the generator answers with in a run of main()
AnswerPlans ==
    { BasePlan,
      EmptyDict,
      EmptyList,
      With(BasePlan, "objective", JDict([text |-> JStr(<<"O">>), evidence |-> EvList(8, 1)])),
      With(BasePlan, "experiments",
           JDict([items |-> JList(<<JDict([name |-> JStr(<<"E","1">>),
                                            evidence |-> EvList(8, 1)])>>)])) }

\* stdout of a generator run that exits with code 0
Responses ==
    {<<>>, <<Junk>>}
        \cup UNION {{<<Json(p)>>, <<Fence, Json(p), Fence>>, <<Fence, Json(p)>>,
                     <<Json(p), Fence>>} : p \in AnswerPlans}

----------------------------------------------------------------------------
(* main()                                                                  *)

Unwritten == [st |-> "unwritten", data |-> <<>>]

\* a local variable of main() before its assignment
Unbound == <<[k |-> "unbound"]>>
NoPlan == [t |-> "unbound"]

Init ==
    /\ pc = "start"
    /\ calls = 0
    /\ output = Unbound
    /\ output2 = Unbound
    /\ plan = NoPlan
    /\ plan_md = <<>>
    /\ plan_with_evidence_md = <<>>
    /\ out_plan = Unwritten
    /\ out_plan_e = Unwritten
    /\ err = "none"

\* the run ends with exception e
Fatal(e) == pc' = "failed" /\ err' = e

\* os.path.exists(pdf_path), else SystemExit; os.makedirs may fail
CheckInput ==
    /\ pc = "start"
    /\ \E pdf_exists \in BOOLEAN, makedirs_ok \in BOOLEAN :
          IF ~pdf_exists THEN Fatal("SystemExit")
          ELSE IF ~makedirs_ok THEN Fatal("OSError")
          ELSE pc' = "run_claude" /\ err' = err
    /\ UNCHANGED <<calls, output, output2, plan, plan_md, plan_with_evidence_md, out_plan, out_plan_e>>

\* (bug variant) the first call sits inside the try block, so its failure is
\* caught and answered with the repair call
RunClaudeInsideTry ==
    /\ pc = "run_claude"
    /\ calls' = calls + 1
    /\ \/ pc' = "repair_run_claude" /\ output' = output /\ err' = err
       \/ \E text \in Responses : output' = text /\ pc' = "parse" /\ err' = err
    /\ UNCHANGED <<output2, plan, plan_md, plan_with_evidence_md, out_plan, out_plan_e>>

\* output = run_claude(...): non-zero exit raises RuntimeError, a timeout
\* raises subprocess.TimeoutExpired, neither is caught
RunClaude ==
    /\ pc = "run_claude"
    /\ calls' = calls + 1
    /\ \/ \E e \in {"RuntimeError", "TimeoutExpired"} : Fatal(e) /\ output' = output
       \/ \E text \in Responses : output' = text /\ pc' = "parse" /\ err' = err
    /\ UNCHANGED <<output2, plan, plan_md, plan_with_evidence_md, out_plan, out_plan_e>>

\* try: plan = parse_json_strict(output)  except Exception: (repair)
Parse ==
    /\ pc = "parse"
    /\ IF parse_json_strict_raises(output)
       THEN pc' = "repair_run_claude" /\ plan' = plan
       ELSE pc' = "render_concise" /\ plan' = parse_json_strict(output)
    /\ UNCHANGED <<calls, output, output2, plan_md, plan_with_evidence_md, out_plan, out_plan_e, err>>

\* output2 = run_claude(..., repair_prompt), inside the except block
RepairRunClaude ==
    /\ pc = "repair_run_claude"
    /\ calls' = calls + 1
    /\ \/ \E e \in {"RuntimeError", "TimeoutExpired"} : Fatal(e) /\ output2' = output2
       \/ \E text \in Responses : output2' = text /\ pc' = "repair_parse" /\ err' = err
    /\ UNCHANGED <<output, plan, plan_md, plan_with_evidence_md, out_plan, out_plan_e>>

\* (bug variant) a second parse failure asks the generator again
RepairParseRetrying ==
    /\ pc = "repair_parse"
    /\ IF parse_json_strict_raises(output2)
       THEN pc' = "repair_run_claude" /\ plan' = plan /\ err' = err
       ELSE pc' = "render_concise" /\ plan' = parse_json_strict(output2) /\ err' = err
    /\ UNCHANGED <<calls, output, output2, plan_md, plan_with_evidence_md, out_plan, out_plan_e>>

\* plan = parse_json_strict(output2), inside the except block: not caught
RepairParse ==
    /\ pc = "repair_parse"
    /\ IF parse_json_strict_raises(output2)
       THEN Fatal("JSONDecodeError") /\ plan' = plan
       ELSE pc' = "render_concise" /\ plan' = parse_json_strict(output2) /\ err' = err
    /\ UNCHANGED <<calls, output, output2, plan_md, plan_with_evidence_md, out_plan, out_plan_e>>

\* plan_md = render_plan_md_concise(plan)
RenderConcise ==
    /\ pc = "render_concise"
    /\ IF render_plan_md_concise_raises(plan)
       THEN Fatal("AttributeError") /\ plan_md' = plan_md
       ELSE pc' = "render_with_evidence" /\ plan_md' = render_plan_md_concise(plan) /\ err' = err
    /\ UNCHANGED <<calls, output, output2, plan, plan_with_evidence_md, out_plan, out_plan_e>>

\* plan_with_evidence_md = render_plan_md_with_evidence(plan)
RenderWithEvidence ==
    /\ pc = "render_with_evidence"
    /\ IF render_plan_md_with_evidence_raises(plan)
       THEN Fatal("AttributeError") /\ plan_with_evidence_md' = plan_with_evidence_md
       ELSE /\ pc' = "open_plan"
            /\ plan_with_evidence_md' = render_plan_md_with_evidence(plan)
            /\ err' = err
    /\ UNCHANGED <<calls, output, output2, plan, plan_md, out_plan, out_plan_e>>

\* open(path, "w") creates or truncates the file, or raises OSError
OpenFile(file, next_pc) ==
    \/ file' = [st |-> "open", data |-> <<>>] /\ pc' = next_pc /\ err' = err
    \/ file' = file /\ Fatal("OSError")

\* f.write(md) writes the whole document, or raises OSError after a part of it
WriteFile(file, md, next_pc) ==
    \/ file' = [st |-> "written", data |-> md] /\ pc' = next_pc /\ err' = err
    \/ \E n \in {0, Len(md) \div 2} :
          file' = [st |-> "partial", data |-> SubSeq(md, 1, n)] /\ Fatal("OSError")

\* with open(out_plan, "w", encoding="utf-8") as f:
OpenPlan ==
    /\ pc = "open_plan"
    /\ OpenFile(out_plan, "write_plan")
    /\ UNCHANGED <<calls, output, output2, plan, plan_md, plan_with_evidence_md, out_plan_e>>

\*     f.write(plan_md)
WritePlan ==
    /\ pc = "write_plan"
    /\ WriteFile(out_plan, plan_md, "open_plan_e")
    /\ UNCHANGED <<calls, output, output2, plan, plan_md, plan_with_evidence_md, out_plan_e>>

\* with open(out_plan_e, "w", encoding="utf-8") as f:
OpenPlanE ==
    /\ pc = "open_plan_e"
    /\ OpenFile(out_plan_e, "write_plan_e")
    /\ UNCHANGED <<calls, output, output2, plan, plan_md, plan_with_evidence_md, out_plan>>

\*     f.write(plan_with_evidence_md)
WritePlanE ==
    /\ pc = "write_plan_e"
    /\ WriteFile(out_plan_e, plan_with_evidence_md, "done")
    /\ UNCHANGED <<calls, output, output2, plan, plan_md, plan_with_evidence_md, out_plan>>

Next ==
    \/ CheckInput
    \/ RunClaude
    \/ Parse
    \/ RepairRunClaude
    \/ RepairParse
    \/ RenderConcise
    \/ RenderWithEvidence
    \/ OpenPlan
    \/ WritePlan
    \/ OpenPlanE
    \/ WritePlanE

Spec == Init /\ [][Next]_vars

----------------------------------------------------------------------------
(* The two renderers applied to every plan of Plans: main() from line 446  *)
(* on, after a first answer that parsed to the plan.                       *)

InitRender ==
    /\ pc = "render_concise"
    /\ calls = 1
    /\ plan \in Plans
    /\ output = <<Json(plan)>>
    /\ output2 = Unbound
    /\ plan_md = <<>>
    /\ plan_with_evidence_md = <<>>
    /\ out_plan = Unwritten
    /\ out_plan_e = Unwritten
    /\ err = "none"

NextRender ==
    \/ RenderConcise
    \/ RenderWithEvidence

SpecRender == InitRender /\ [][NextRender]_vars

----------------------------------------------------------------------------
(* Properties.                                                             *)

\* one of the renderers has returned a document
Rendered == plan_md # <<>> \/ plan_with_evidence_md # <<>>

NoFileTouched == out_plan = Unwritten /\ out_plan_e = Unwritten

GeneratorFailed == err \in {"RuntimeError", "TimeoutExpired"}

\* render_plan_md_concise has returned / both renderers have returned
ConciseReturned == pc \in {"render_with_evidence", "open_plan"} \/ (pc = "failed" /\ plan_md # <<>>)
BothReturned == pc = "open_plan"

ListKeys == {"hypothesis", "methodology"}

\* the items sequence of a section of the plan, empty unless the section is a
\* mapping whose items is a sequence
ItemsOf(key) ==
    IF /\ IsDict(plan)
       /\ key \in DOMAIN plan.v
       /\ IsDict(plan.v[key])
       /\ "items" \in DOMAIN plan.v[key].v
       /\ IsList(plan.v[key].v["items"])
    THEN plan.v[key].v["items"].v
    ELSE <<>>

\* the normalized value of a field of a mapping, "Unknown" when absent
Field(it, k) == normalize_unknown(IF k \in DOMAIN it.v THEN it.v[k] ELSE JNull)

HasText(it) == IsDict(it) /\ Field(it, "text") # s_Unknown
HasName(it) == IsDict(it) /\ Field(it, "name") # s_Unknown

SectionHeader(key) ==
    CASE key = "hypothesis" -> <<"#","#"," ","H","y","p","o","t","h","e","s","i","s","\n">>
      [] key = "methodology" -> <<"#","#"," ","M","e","t","h","o","d","o","l","o","g","y","\n">>
      [] key = "experiments" -> <<"#","#"," ","E","x","p","e","r","i","m","e","n","t","s","\n">>

\* s ends with suffix
EndsWith(s, suffix) ==
    Len(s) >= Len(suffix) /\ SubSeq(s, Len(s) - Len(suffix) + 1, Len(s)) = suffix

\* how many times sub occurs in s
CountSub(s, sub) ==
    Cardinality({i \in 1..(Len(s) - Len(sub) + 1) : SubSeq(s, i, i + Len(sub) - 1) = sub})

(* C1 *)
\* C1: a run that ends in a fatal error has written no output file; in every
\* terminal state plan.md and plan_with_evidence.md are both unwritten by this
\* run or both fully written by it.
C1_NoPartialOutput ==
    pc \in {"failed", "done"} =>
        /\ (pc = "failed" => NoFileTouched)
        /\ \/ NoFileTouched
           \/ /\ out_plan = [st |-> "written", data |-> plan_md]
              /\ out_plan_e = [st |-> "written", data |-> plan_with_evidence_md]

(* C2 *)
\* C2: the generator is invoked at most twice; the second invocation happens
\* only after a first answer that failed to parse; when the repair answer
\* fails to parse too the run has failed, with nothing rendered, no file
\* written and no further invocation.
C2_AtMostOneRepair ==
    /\ calls <= 2
    /\ calls = 2 => output # Unbound /\ parse_json_strict_raises(output)
    /\ (calls = 2 /\ output2 # Unbound /\ pc # "repair_parse"
            /\ parse_json_strict_raises(output2))
          => pc = "failed" /\ err = "JSONDecodeError" /\ ~Rendered /\ NoFileTouched
    /\ err = "JSONDecodeError" => calls = 2 /\ output2 # Unbound /\ parse_json_strict_raises(output2)

\* the repair answer failed to parse
C2_Witness ==
    pc = "failed" /\ calls = 2 /\ output2 # Unbound /\ parse_json_strict_raises(output2)

(* C4 *)
\* C4: a non-zero exit or timeout of the generator, on the first or on the
\* repair invocation, ends the run: nothing is rendered or written, the
\* repair invocation only ever follows a first answer that was returned, and
\* no step (so no further invocation) follows the failure.
C4_CollaboratorFailureFatal ==
    /\ [](GeneratorFailed => pc = "failed" /\ ~Rendered /\ NoFileTouched)
    /\ [](pc \in {"repair_run_claude", "repair_parse"} \/ calls = 2 => output # Unbound)
    /\ [][~GeneratorFailed]_vars

\* the repair invocation failed
C4_Witness == GeneratorFailed /\ calls = 2

(* C3 *)
\* C3: for every value parse_json_strict can return, both renderers return a
\* string without raising: no run ends with an exception of a renderer.
C3_RenderersNeverRaise ==
    pc = "failed" => err # "AttributeError"

(* C5 *)
\* the texts that survive in a hypothesis / methodology section
C5_Survivors(key) == SelectSeq(ItemsOf(key), HasText)

\* "Unknown", or the survivors numbered 1..k in input order, one per line
C5_Expected(key) ==
    LET texts == C5_Survivors(key)
    IN IF texts = <<>> THEN s_Unknown
       ELSE join(<<"\n">>, [i \in 1..Len(texts) |->
                               nat_str(i) \o <<"."," ">> \o Field(texts[i], "text")])

\* C5: for key in {hypothesis, methodology}, extract_list_text returns
\* "Unknown" when no item is a mapping with a text other than "Unknown",
\* otherwise the surviving texts in input order numbered 1..k without gaps or
\* placeholder lines; the concise document carries exactly that under the
\* section's heading.
C5_ListRenumbering ==
    IsDict(plan) =>
        \A key \in ListKeys :
            /\ extract_list_text(plan, key) = C5_Expected(key)
            /\ ConciseReturned =>
                  Contains(plan_md, SectionHeader(key) \o C5_Expected(key) \o <<"\n","\n","#">>)

\* a dropped item stands between two surviving ones
C5_Witness ==
    /\ ConciseReturned
    /\ \E key \in ListKeys :
          /\ Len(ItemsOf(key)) = 3
          /\ HasText(ItemsOf(key)[1])
          /\ ~HasText(ItemsOf(key)[2])
          /\ HasText(ItemsOf(key)[3])

(* C8 *)
\* the block of a named experiment, without its evidence
C8_Block(it) ==
    join(<<"\n">>,
         << <<"#","#","#"," ">> \o Field(it, "name"),
            <<"-"," ","W","h","a","t"," ","v","a","r","i","e","d",":"," ">> \o Field(it, "what_varied"),
            <<"-"," ","M","e","t","r","i","c",":"," ">> \o Field(it, "metric"),
            <<"-"," ","M","a","i","n"," ","r","e","s","u","l","t",":"," ">> \o Field(it, "main_result") >>)

C8_Expected ==
    LET named == SelectSeq(ItemsOf("experiments"), HasName)
    IN IF named = <<>> THEN s_Unknown
       ELSE join(<<"\n","\n">>, [i \in 1..Len(named) |-> C8_Block(named[i])])

\* what C8 states, for the plans on which extract_experiments_text returns
C8_BlocksWhenReturned ==
    (IsDict(plan) /\ ~extract_experiments_text_raises(plan)) =>
        /\ extract_experiments_text(plan, FALSE) = C8_Expected
        /\ ConciseReturned =>
              EndsWith(plan_md, SectionHeader("experiments") \o C8_Expected \o <<"\n">>)

\* C8: for every plan extract_experiments_text emits one block per
\* experiments.items entry that is a mapping with a name other than
\* "Unknown", in input order, with what_varied, metric and main_result each
\* normalized on its own; entries without a name leave no trace, and with no
\* named entry the result is exactly "Unknown".  So once
\* render_plan_md_concise has been called on a mapping it has returned, and
\* the document ends with that text.
C8_ExperimentBlocks ==
    /\ (IsDict(plan) /\ pc # "render_concise") => ConciseReturned
    /\ C8_BlocksWhenReturned

(* C9 *)
\* the first two formatted evidence lines of each mapping item, in order
C9_Expected(key) ==
    LET items == ItemsOf(key)
    IN concat([i \in 1..Len(items) |->
                 IF IsDict(items[i])
                 THEN first_two(format_evidence_list(
                          IF "evidence" \in DOMAIN items[i].v THEN items[i].v["evidence"]
                          ELSE EmptyList))
                 ELSE <<>>])

\* line is (p.<page>) "<quote>" or (p.?) "<quote>" for an evidence entry of
\* some item of the section, <quote> being the entry's normalized quote
C9_IsCanonical(line, key) ==
    \E i \in 1..Len(ItemsOf(key)) :
        LET it == ItemsOf(key)[i]
        IN /\ IsDict(it) /\ "evidence" \in DOMAIN it.v /\ IsList(it.v["evidence"])
           /\ \E j \in 1..Len(it.v["evidence"].v) :
                 LET e == it.v["evidence"].v[j]
                 IN /\ IsDict(e) /\ "quote" \in DOMAIN e.v /\ IsStr(e.v["quote"])
                    /\ LET q == <<"\"">> \o normalize_quote(e.v["quote"]) \o <<"\"">>
                       IN \/ line = <<"(","p",".","?",")"," ">> \o q
                          \/ /\ "page" \in DOMAIN e.v /\ IsInt(e.v["page"])
                             /\ line = <<"(","p",".">> \o py_str(e.v["page"]) \o <<")"," ">> \o q

\* C9: every line extract_list_evidence_lines returns is a line of
\* format_evidence_list, (p.<page>) "<quote>" or (p.?) "<quote>", without
\* the H<n>/M<n> prefix and with the quote intact also when it contains ": ";
\* the result is the in-order concatenation of the first two formatted
\* evidence lines of each mapping item.
C9_EvidenceLinesCanonical ==
    \A key \in ListKeys :
        (IsDict(plan) /\ ~extract_list_evidence_lines_raises(plan, key)) =>
            LET lines == extract_list_evidence_lines(plan, key)
            IN /\ lines = C9_Expected(key)
               /\ \A k \in 1..Len(lines) : C9_IsCanonical(lines[k], key)
               /\ BothReturned =>
                     \A k \in 1..Len(lines) :
                         Contains(plan_with_evidence_md, <<"\n","-"," ">> \o lines[k] \o <<"\n">>)

\* an emitted evidence line whose quote contains ": "
C9_Witness ==
    /\ BothReturned
    /\ \E key \in ListKeys :
          \E k \in 1..Len(extract_list_evidence_lines(plan, key)) :
              Contains(extract_list_evidence_lines(plan, key)[k], <<":"," ">>)

(* C10 *)
\* some mapping item of the section has an evidence entry whose quote is not
\* empty once normalized
C10_HasEvidence(key) ==
    \E i \in 1..Len(ItemsOf(key)) :
        LET it == ItemsOf(key)[i]
        IN /\ IsDict(it) /\ "evidence" \in DOMAIN it.v /\ IsList(it.v["evidence"])
           /\ \E j \in 1..Len(it.v["evidence"].v) :
                 LET e == it.v["evidence"].v[j]
                 IN /\ IsDict(e) /\ "quote" \in DOMAIN e.v
                    /\ normalize_quote(e.v["quote"]) # <<>>

C10_UnknownBody(key) == SectionHeader(key) \o s_Unknown \o <<"\n">>

\* C10: in the evidence document a hypothesis / methodology section whose
\* body is "Unknown" is followed by an Evidence sub-list exactly when some
\* mapping item of the section has an evidence entry with a non-empty quote:
\* dropping an item's text does not drop its evidence.
C10_EvidenceSurvivesUnknownText ==
    BothReturned =>
        \A key \in ListKeys :
            extract_list_text(plan, key) = s_Unknown =>
                /\ Contains(plan_with_evidence_md,
                            C10_UnknownBody(key)
                                \o <<"\n","*","*","E","v","i","d","e","n","c","e","*","*",":","\n","-"," ","(","p",".">>)
                      <=> C10_HasEvidence(key)
                /\ Contains(plan_with_evidence_md, C10_UnknownBody(key) \o <<"\n","#","#"," ">>)
                      <=> ~C10_HasEvidence(key)

\* a section whose body is "Unknown" and that still shows evidence
C10_Witness ==
    /\ BothReturned
    /\ extract_list_text(plan, "hypothesis") = s_Unknown
    /\ C10_HasEvidence("hypothesis")

(* C6 *)
\* the part of the evidence document from the Objective heading up to the
\* Hypothesis heading
C6_ObjectivePart ==
    LET doc == plan_with_evidence_md
        at == {i \in 1..Len(doc) :
                  i + 14 <= Len(doc) /\ SubSeq(doc, i, i + 14) = <<"\n">> \o SectionHeader("hypothesis")}
    IN IF at = {} THEN doc ELSE SubSeq(doc, 1, CHOOSE i \in at : \A j \in at : i <= j)

\* C6: in the evidence document at most 2 evidence lines appear for the
\* objective, and at most 2 per hypothesis item, methodology item and
\* experiment.
C6_EvidenceCapEverywhere ==
    BothReturned =>
        /\ CountSub(C6_ObjectivePart, <<"\n","-"," ","(","p",".">>) <= 2
        /\ \A key \in ListKeys :
              Len(extract_list_evidence_lines(plan, key))
                  <= 2 * Cardinality({i \in 1..Len(ItemsOf(key)) : IsDict(ItemsOf(key)[i])})
        /\ CountSub(plan_with_evidence_md, <<"\n"," "," ","-"," ","(","p",".">>)
              <= 2 * Len(SelectSeq(ItemsOf("experiments"), HasName))

(* C7 *)
\* the normalized field texts the concise document is assembled from
C7_RenderedFields ==
    {extract_objective_text(plan)}
        \cup UNION {{Field(ItemsOf(key)[i], "text") :
                        i \in {i \in 1..Len(ItemsOf(key)) : HasText(ItemsOf(key)[i])}} :
                    key \in ListKeys}
        \cup UNION {{Field(ItemsOf("experiments")[i], f) :
                        f \in {"name", "what_varied", "metric", "main_result"}} :
                    i \in {i \in 1..Len(ItemsOf("experiments")) : HasName(ItemsOf("experiments")[i])}}

C7_Words == {<<"E","v","i","d","e","n","c","e">>, <<"U","n","k","n","o","w","n","s">>}

\* C7 as stated: the concise document contains neither "Evidence" nor
\* "Unknowns", whatever text the plan carries.
C7_NeverContains ==
    ConciseReturned => \A w \in C7_Words : ~Contains(plan_md, w)

\* C7 amended: the concise document contains "Evidence" or "Unknowns" only
\* inside a normalized field text of the plan that contains it; the renderer
\* adds no evidence and no unknowns section of its own.
C7_OnlyFromPlanText ==
    ConciseReturned =>
        \A w \in C7_Words :
            Contains(plan_md, w) => \E f \in C7_RenderedFields : Contains(f, w)

\* a concise document that contains "Evidence"
C7_Witness ==
    ConciseReturned /\ Contains(plan_md, <<"E","v","i","d","e","n","c","e">>)

====
